---- MODULE Spec2Model ----
(***************************************************************************)
(* stock_cli (src/src/main.rs): fetch one year of weekly candles for a     *)
(* symbol, pick the x-axis labels, compute the y range, draw one           *)
(* candlestick per close price and write ./static/<symbol>.png.            *)
(*                                                                         *)
(* Prices are f64 in the program; a JSON body carries neither NaN nor an   *)
(* infinity, so they are totally ordered and are carried here as integers. *)
(* The i64 epoch seconds of `t` are carried as whole days (seconds divided *)
(* by 86400, the candles being midnight-aligned) so that a value outside   *)
(* chrono's calendar range stays within TLC's 32-bit integers; Local is    *)
(* taken with a zero offset.                                               *)
(***************************************************************************)
EXTENDS Integers, Sequences, FiniteSets, TLC

\* Longest sequence of the responses whose six lengths vary independently.
MaxLen == 2
\* Longest timestamp series of the well-shaped responses that vary t.
MaxTs == 3
\* Largest number of bars of the well-shaped responses that vary the prices.
MaxBars == 2

\* The headroom added above the maximum high and below the minimum low.
PADDING == 25

VARIABLES
    env_api_key,    \* FINNHUB_API_KEY is set in the environment
    pc,             \* position of main: a stage, "done", "error" (main returned Err) or "panic"
    requests,       \* number of HTTP requests issued
    response,       \* the parsed body (stock_candles once get returned Ok)
    close_prices, open_prices, high_prices, low_prices,
    timestamps,     \* Vec<DateTime<Local>>
    labels_iter,    \* number of elements the peekable iterator has yielded
    labels,
    dir_created,    \* create_dir_all("./static") succeeded
    root,           \* the drawing area: "none", "filled"
    highest_price, lowest_price,
    chart,          \* the chart context once built
    index,          \* number of iterations of the for_each over close_prices completed
    candles,        \* the candlesticks drawn, in drawing order
    presented,      \* root.present() wrote the file
    failure         \* where and how the run failed

vars == <<env_api_key, pc, requests, response, close_prices, open_prices,
          high_prices, low_prices, timestamps, labels_iter, labels, dir_created,
          root, highest_price, lowest_price, chart, index, candles, presented,
          failure>>

----------------------------------------------------------------------------
(* Option / Result values *)

None == [some |-> FALSE]
Some(x) == [some |-> TRUE, val |-> x]

----------------------------------------------------------------------------
(* chrono: epoch -> calendar date *)

\* The proleptic Gregorian date of a day count since 1970-01-01.
civil_from_days(days) ==
    LET z    == days + 719468
        era  == z \div 146097
        doe  == z - era * 146097
        yoe  == (doe - (doe \div 1460) + (doe \div 36524) - (doe \div 146096)) \div 365
        doy  == doe - (365 * yoe + (yoe \div 4) - (yoe \div 100))
        mp   == (5 * doy + 2) \div 153
        d    == doy - ((153 * mp + 2) \div 5) + 1
        m    == IF mp < 10 THEN mp + 3 ELSE mp - 9
        y    == yoe + era * 400 + (IF m <= 2 THEN 1 ELSE 0)
    IN  [year |-> y, month |-> m, day |-> d]

\* parse_time: Local.timestamp_opt(timestamp, 0).single().ok_or_else(..):
\* Err when the instant lies outside chrono's calendar (years -262144..262143).
parse_time(timestamp) ==
    LET dt == civil_from_days(timestamp)
    IN  IF dt.year >= -262144 /\ dt.year <= 262143 THEN Some(dt) ELSE None

\* stock_candles.t.iter().filter_map(|&t| parse_time(t).ok()).collect()
RECURSIVE filter_map_parse_time(_)
filter_map_parse_time(t) ==
    IF t = <<>> THEN <<>>
    ELSE LET r == parse_time(Head(t))
         IN  (IF r.some THEN <<r.val>> ELSE <<>>) \o filter_map_parse_time(Tail(t))

----------------------------------------------------------------------------
(* Label selection *)

should_show_label_no_year(current_date, next_date) ==
    IF next_date.some
    THEN current_date.month # next_date.val.month
    ELSE TRUE

should_show_label_drop_last(current_date, next_date) ==
    IF next_date.some
    THEN current_date.month # next_date.val.month \/ current_date.year # next_date.val.year
    ELSE FALSE

should_show_label(current_date, next_date) ==
    IF next_date.some
    THEN current_date.month # next_date.val.month \/ current_date.year # next_date.val.year
    ELSE TRUE

----------------------------------------------------------------------------
(* Price range *)

f64_max(a, b) == IF a >= b THEN a ELSE b
f64_min(a, b) == IF a <= b THEN a ELSE b

RECURSIVE fold_max(_, _)
fold_max(acc, s) == IF s = <<>> THEN acc ELSE fold_max(f64_max(acc, Head(s)), Tail(s))

RECURSIVE fold_min(_, _)
fold_min(acc, s) == IF s = <<>> THEN acc ELSE fold_min(f64_min(acc, Head(s)), Tail(s))

\* into_iter().reduce(f64::max): None on an empty vector
reduce_max(s) == IF s = <<>> THEN None ELSE Some(fold_max(Head(s), Tail(s)))
reduce_min(s) == IF s = <<>> THEN None ELSE Some(fold_min(Head(s), Tail(s)))

highest_of(highs) == reduce_max(highs).val + PADDING

lowest_of_from_max(lows) == reduce_max(lows).val - PADDING

lowest_of(lows) == reduce_min(lows).val - PADDING

----------------------------------------------------------------------------
(* Candlesticks *)

GREEN == "GREEN"
RED == "RED"
filled(color) == [color |-> color, filled |-> TRUE]

\* plotters' CandleStick::new: the gain style when open < close, the loss style otherwise.
CandleStickNew(x, open, high, low, close, gain_style, loss_style, width) ==
    [x |-> x, open |-> open, high |-> high, low |-> low, close |-> close,
     style |-> IF open < close THEN gain_style ELSE loss_style,
     width |-> width]

candle_stick_swapped(timestamp, open_price, high_price, low_price, close_price) ==
    CandleStickNew(timestamp, open_price, high_price, low_price, close_price,
                   filled(RED), filled(GREEN), 15)

candle_stick(timestamp, open_price, high_price, low_price, close_price) ==
    CandleStickNew(timestamp, open_price, high_price, low_price, close_price,
                   filled(GREEN), filled(RED), 15)

----------------------------------------------------------------------------
(* The provider's responses *)

SeqsUpTo(S, n) == UNION {[1..k -> S] : k \in 0..n}

\* A day of January 2023, and a value beyond chrono's calendar.
ShapeDays == {19358, 100000000}
\* 2023-01-01, 2023-01-30, 2023-02-06, 2024-01-01, and a value beyond chrono's calendar.
EpochDays == {19358, 19387, 19394, 19723, 100000000}

Statuses == {"ok", "no_data"}

StockCandles(c, h, l, o, s, t, v) ==
    [c |-> c, h |-> h, l |-> l, o |-> o, s |-> s, t |-> t, v |-> v]

\* Responses whose six sequences vary in length independently.
ShapeResponses ==
    {StockCandles(c, h, l, o, s, t, v) :
        c \in SeqsUpTo({130}, MaxLen), h \in SeqsUpTo({140}, MaxLen),
        l \in SeqsUpTo({120}, MaxLen), o \in SeqsUpTo({125}, MaxLen),
        s \in Statuses, t \in SeqsUpTo(ShapeDays, MaxLen),
        v \in SeqsUpTo({1000}, MaxLen)}

\* Well-shaped responses over every timestamp series.
TimeResponses ==
    {StockCandles([i \in 1..Len(t) |-> 130], [i \in 1..Len(t) |-> 140],
                  [i \in 1..Len(t) |-> 120], [i \in 1..Len(t) |-> 125],
                  "ok", t, [i \in 1..Len(t) |-> 1000]) :
        t \in SeqsUpTo(EpochDays, MaxTs)}

\* Bars: open 130, close below/at/above it, two highs, two lows.
Bars == [o : {130}, c : {125, 130, 135}, h : {140, 180}, l : {120, 124}]

\* Well-shaped responses over every series of bars, one bar a week.
PriceResponses ==
    {StockCandles([i \in 1..Len(b) |-> b[i].c], [i \in 1..Len(b) |-> b[i].h],
                  [i \in 1..Len(b) |-> b[i].l], [i \in 1..Len(b) |-> b[i].o],
                  "ok", [i \in 1..Len(b) |-> 19358 + 7 * (i - 1)],
                  [i \in 1..Len(b) |-> 1000]) :
        b \in SeqsUpTo(Bars, MaxBars)}

Responses == ShapeResponses \cup TimeResponses \cup PriceResponses

NoResponse == StockCandles(<<>>, <<>>, <<>>, <<>>, "<none>", <<>>, <<>>)
NoFailure == [stage |-> "none", kind |-> "none"]
NoChart == [built |-> FALSE]

----------------------------------------------------------------------------
(* The run *)

Init ==
    /\ env_api_key \in BOOLEAN
    /\ pc = "get"
    /\ requests = 0
    /\ response = NoResponse
    /\ close_prices = <<>> /\ open_prices = <<>>
    /\ high_prices = <<>> /\ low_prices = <<>>
    /\ timestamps = <<>>
    /\ labels_iter = 0
    /\ labels = <<>>
    /\ dir_created = FALSE
    /\ root = "none"
    /\ highest_price = 0 /\ lowest_price = 0
    /\ chart = NoChart
    /\ index = 0
    /\ candles = <<>>
    /\ presented = FALSE
    /\ failure = NoFailure

Fail(how, stage, kind) ==
    /\ pc' = how
    /\ failure' = [stage |-> stage, kind |-> kind]

\* StockCandles::get and the `?` of main on its result.
get_retrying ==
    /\ pc = "get"
    /\ \/ /\ ~env_api_key
          /\ Fail("panic", "get", "expect: api key not found")
          /\ UNCHANGED <<requests, response>>
       \/ /\ env_api_key
          /\ \/ /\ requests' = requests + 1
                /\ \E kind \in {"json"} :
                      Fail("error", "get", kind)
                /\ UNCHANGED response
             \/ \E n \in 1..2 : \E r \in Responses :
                   /\ requests' = requests + n
                   /\ response' = r
                   /\ IF r.s # "ok"
                      THEN Fail("panic", "get", "panic: status")
                      ELSE pc' = "collect" /\ UNCHANGED failure
    /\ UNCHANGED <<env_api_key, close_prices, open_prices, high_prices, low_prices,
                   timestamps, labels_iter, labels, dir_created, root, highest_price,
                   lowest_price, chart, index, candles, presented>>

get ==
    /\ pc = "get"
    /\ \/ /\ ~env_api_key
          /\ Fail("panic", "get", "expect: api key not found")
          /\ UNCHANGED <<requests, response>>
       \/ /\ env_api_key
          /\ requests' = requests + 1
          /\ \/ /\ \E kind \in {"reqwest", "json"} :
                      Fail("error", "get", kind)
                /\ UNCHANGED response
             \/ \E r \in Responses :
                   /\ response' = r
                   /\ IF r.s # "ok"
                      THEN Fail("panic", "get", "panic: status")
                      ELSE pc' = "collect" /\ UNCHANGED failure
    /\ UNCHANGED <<env_api_key, close_prices, open_prices, high_prices, low_prices,
                   timestamps, labels_iter, labels, dir_created, root, highest_price,
                   lowest_price, chart, index, candles, presented>>

\* Collect the data of stock_candles into individual vectors.
collect ==
    /\ pc = "collect"
    /\ close_prices' = response.c
    /\ open_prices' = response.o
    /\ high_prices' = response.h
    /\ low_prices' = response.l
    /\ timestamps' = filter_map_parse_time(response.t)
    /\ pc' = "labels"
    /\ UNCHANGED <<env_api_key, requests, response, labels_iter, labels, dir_created,
                   root, highest_price, lowest_price, chart, index, candles, presented,
                   failure>>

\* One iteration of `while let Some(current_date) = labels_iter.next()`.
label_walk_step ==
    /\ pc = "labels"
    /\ labels_iter < Len(timestamps)
    /\ LET current_date == timestamps[labels_iter + 1]
           next_date == IF labels_iter + 2 <= Len(timestamps)
                        THEN Some(timestamps[labels_iter + 2])
                        ELSE None
       IN  labels' = IF should_show_label(current_date, next_date)
                     THEN Append(labels, current_date)
                     ELSE labels
    /\ labels_iter' = labels_iter + 1
    /\ UNCHANGED <<env_api_key, pc, requests, response, close_prices, open_prices,
                   high_prices, low_prices, timestamps, dir_created, root,
                   highest_price, lowest_price, chart, index, candles, presented,
                   failure>>

\* labels_iter.next() returns None: the walk is over.
label_walk_end ==
    /\ pc = "labels"
    /\ labels_iter >= Len(timestamps)
    /\ pc' = "mkdir"
    /\ UNCHANGED <<env_api_key, requests, response, close_prices, open_prices,
                   high_prices, low_prices, timestamps, labels_iter, labels,
                   dir_created, root, highest_price, lowest_price, chart, index,
                   candles, presented, failure>>

\* create_directory("./static")?
create_directory ==
    /\ pc = "mkdir"
    /\ \/ /\ Fail("panic", "mkdir", "panic: create_dir_all")
          /\ UNCHANGED dir_created
       \/ /\ dir_created' = TRUE
          /\ pc' = "canvas"
          /\ UNCHANGED failure
    /\ UNCHANGED <<env_api_key, requests, response, close_prices, open_prices,
                   high_prices, low_prices, timestamps, labels_iter, labels, root,
                   highest_price, lowest_price, chart, index, candles, presented>>

\* BitMapBackend::new(..).into_drawing_area(); root.fill(&WHITE)?
create_canvas ==
    /\ pc = "canvas"
    /\ \/ /\ Fail("error", "canvas", "fill")
          /\ UNCHANGED root
       \/ /\ root' = "filled"
          /\ pc' = "range"
          /\ UNCHANGED failure
    /\ UNCHANGED <<env_api_key, requests, response, close_prices, open_prices,
                   high_prices, low_prices, timestamps, labels_iter, labels,
                   dir_created, highest_price, lowest_price, chart, index, candles,
                   presented>>

\* highest_price and lowest_price: reduce(..).unwrap() + / - 25.0
price_range ==
    /\ pc = "range"
    /\ IF ~reduce_max(high_prices).some \/ ~reduce_min(low_prices).some
       THEN /\ Fail("panic", "range", "unwrap on None")
            /\ highest_price' = IF reduce_max(high_prices).some
                                THEN highest_of(high_prices)
                                ELSE highest_price
            /\ UNCHANGED lowest_price
       ELSE /\ highest_price' = highest_of(high_prices)
            /\ lowest_price' = lowest_of(low_prices)
            /\ pc' = "chart"
            /\ UNCHANGED failure
    /\ UNCHANGED <<env_api_key, requests, response, close_prices, open_prices,
                   high_prices, low_prices, timestamps, labels_iter, labels,
                   dir_created, root, chart, index, candles, presented>>

\* ChartBuilder .. build_cartesian_2d(from_date..to_date, lowest_price..highest_price)?
\* and configure_mesh() .. x_labels(labels.len()) .. draw()?
build_chart ==
    /\ pc = "chart"
    /\ \/ /\ \E kind \in {"build_cartesian_2d", "mesh draw"} :
                Fail("error", "chart", kind)
          /\ UNCHANGED chart
       \/ /\ chart' = [built |-> TRUE, y_range |-> <<lowest_price, highest_price>>,
                       x_labels |-> Len(labels)]
          /\ pc' = "draw"
          /\ UNCHANGED failure
    /\ UNCHANGED <<env_api_key, requests, response, close_prices, open_prices,
                   high_prices, low_prices, timestamps, labels_iter, labels,
                   dir_created, root, highest_price, lowest_price, index, candles,
                   presented>>

\* One iteration of close_prices.iter().enumerate().for_each(..).
draw_candle ==
    /\ pc = "draw"
    /\ index < Len(close_prices)
    /\ LET i == index + 1
       IN  IF i > Len(open_prices) \/ i > Len(high_prices)
              \/ i > Len(low_prices) \/ i > Len(timestamps)
           THEN /\ Fail("panic", "draw", "index out of bounds")
                /\ UNCHANGED <<candles, index>>
           ELSE \/ /\ Fail("panic", "draw", "expect: draw_series")
                   /\ UNCHANGED <<candles, index>>
                \/ /\ candles' = Append(candles,
                          candle_stick(timestamps[i], open_prices[i], high_prices[i],
                                       low_prices[i], close_prices[i]))
                   /\ index' = i
                   /\ UNCHANGED <<pc, failure>>
    /\ UNCHANGED <<env_api_key, requests, response, close_prices, open_prices,
                   high_prices, low_prices, timestamps, labels_iter, labels,
                   dir_created, root, highest_price, lowest_price, chart, presented>>

\* root.present().expect(..); Ok(())
present ==
    /\ pc = "draw"
    /\ index >= Len(close_prices)
    /\ \/ /\ Fail("panic", "present", "expect: present")
          /\ UNCHANGED presented
       \/ /\ presented' = TRUE
          /\ pc' = "done"
          /\ UNCHANGED failure
    /\ UNCHANGED <<env_api_key, requests, response, close_prices, open_prices,
                   high_prices, low_prices, timestamps, labels_iter, labels,
                   dir_created, root, highest_price, lowest_price, chart, index,
                   candles>>

Next ==
    \/ get
    \/ collect
    \/ label_walk_step
    \/ label_walk_end
    \/ create_directory
    \/ create_canvas
    \/ price_range
    \/ build_chart
    \/ draw_candle
    \/ present

Spec == Init /\ [][Next]_vars

----------------------------------------------------------------------------
(* Vocabulary of the properties *)

Range(s) == {s[i] : i \in 1..Len(s)}
SetMax(S) == CHOOSE x \in S : \A y \in S : y <= x
SetMin(S) == CHOOSE x \in S : \A y \in S : x <= y

YearMonth(dt) == <<dt.year, dt.month>>

NotAfter(a, b) ==
    \/ a.year < b.year
    \/ a.year = b.year /\ a.month < b.month
    \/ a.year = b.year /\ a.month = b.month /\ a.day <= b.day

Chronological(ts) == \A i, j \in 1..Len(ts) : i < j => NotAfter(ts[i], ts[j])

\* The last timestamp of ts that falls in the (year, month) ym.
LastOfMonth(ts, ym) ==
    ts[SetMax({i \in 1..Len(ts) : YearMonth(ts[i]) = ym})]

RECURSIVE IsSubsequence(_, _)
IsSubsequence(a, b) ==
    IF a = <<>> THEN TRUE
    ELSE IF b = <<>> THEN FALSE
    ELSE IF Head(a) = Head(b) THEN IsSubsequence(Tail(a), Tail(b))
    ELSE IsSubsequence(a, Tail(b))

\* The label walk has run to its end.
LabelsSelected == pc \notin {"get", "collect", "labels"} /\ failure.stage # "get"

\* get returned Ok: the provider answered with status "ok".
Fetched == response # NoResponse /\ response.s = "ok"

EqualLengths(r) ==
    /\ Len(r.o) = Len(r.c) /\ Len(r.h) = Len(r.c) /\ Len(r.l) = Len(r.c)
    /\ Len(r.v) = Len(r.c) /\ Len(r.t) = Len(r.c)

AllEmpty(r) ==
    /\ r.c = <<>> /\ r.o = <<>> /\ r.h = <<>> /\ r.l = <<>> /\ r.v = <<>> /\ r.t = <<>>

HasUnparseableTimestamp(r) == \E i \in 1..Len(r.t) : ~parse_time(r.t[i]).some

----------------------------------------------------------------------------
(* Properties *)

C3_ShapeMismatchRejected ==
    (Fetched /\ ~EqualLengths(response)) =>
        /\ root = "none"
        /\ candles = <<>>
        /\ pc \notin {"range", "chart", "draw", "done"}

\* C4: for an empty series (status "ok", all sequences empty) the labels are
\* empty, the price range stage ends in the error outcome EmptySeriesError
\* rather than a crash, and the run never reaches the success state.
C4_EmptySeriesError ==
    (Fetched /\ AllEmpty(response)) =>
        /\ labels = <<>>
        /\ pc # "done"
        /\ failure.stage = "range" =>
              (pc = "error" /\ failure.kind = "EmptySeriesError")

\* C5: when the parsed response's status is not "ok", get ends with an error
\* value returned through the result path (not by abnormal termination), and no
\* later stage has run.
C5_RemoteStatusReturned ==
    (response # NoResponse /\ response.s # "ok") =>
        /\ pc = "error"
        /\ failure.stage = "get"
        /\ timestamps = <<>> /\ labels = <<>>
        /\ ~dir_created /\ root = "none" /\ candles = <<>>

\* C6: the y range the chart is built with is exactly
\* (min(lows) - 25, max(highs) + 25) of the response, whatever the opens,
\* closes, volumes and timestamps are.
C6_YRange ==
    chart.built =>
        chart.y_range = <<SetMin(Range(response.l)) - 25,
                          SetMax(Range(response.h)) + 25>>

\* A chart built from highs with maximum 180 and lows with minimum 120, neither
\* sequence constant: the range is (95, 205).
C6_Witness ==
    /\ chart.built
    /\ Range(response.h) = {140, 180}
    /\ Range(response.l) = {120, 124}
    /\ chart.y_range = <<95, 205>>

\* C7: every candlestick drawn is green exactly when its bar's close is
\* strictly above its open, and red otherwise, equality included; the one
\* style serves fill and outline.
C7_ColorRule ==
    \A i \in 1..Len(candles) :
        candles[i].style =
            IF response.c[i] > response.o[i]
            THEN [color |-> "GREEN", filled |-> TRUE]
            ELSE [color |-> "RED", filled |-> TRUE]

\* A bar with close = open drawn red, followed by a bar with close > open
\* drawn green.
C7_Witness ==
    /\ Len(candles) = 2
    /\ response.c[1] = response.o[1] /\ candles[1].style.color = "RED"
    /\ response.c[2] > response.o[2] /\ candles[2].style.color = "GREEN"

\* C8: at most one request is ever issued; when that attempt fails (transport
\* failure or unparseable body) main has returned the error after exactly one
\* request and no later stage has run.
C8_NoRetries ==
    /\ requests <= 1
    /\ (failure.stage = "get" /\ failure.kind \in {"reqwest", "json"}) =>
          /\ pc = "error"
          /\ requests = 1
          /\ response = NoResponse
          /\ timestamps = <<>> /\ labels = <<>>
          /\ ~dir_created /\ root = "none" /\ candles = <<>> /\ ~presented

\* The single request failed in transport and the run is over.
C8_Witness ==
    /\ pc = "error"
    /\ failure = [stage |-> "get", kind |-> "reqwest"]
    /\ requests = 1

\* C9: a failure is never recovered from locally; in particular once a
\* timestamp of the response fails parse_time, the run ends in an error at
\* that stage instead of continuing with the remaining timestamps.
C9_FailFast ==
    /\ failure # NoFailure => pc \in {"error", "panic"}
    /\ (Fetched /\ HasUnparseableTimestamp(response) /\ pc # "collect") =>
          (pc \in {"error", "panic"} /\ failure.stage = "collect")

\* C10: on success there is one candlestick per bar of the response, in index
\* order, and candlestick i carries the converted t[i] with o[i], h[i], l[i],
\* c[i].
C10_OneCandlePerBar ==
    pc = "done" =>
        /\ Len(candles) = Len(response.t)
        /\ Len(candles) = Len(response.c)
        /\ \A i \in 1..Len(candles) :
              /\ parse_time(response.t[i]).some
              /\ candles[i].x = parse_time(response.t[i]).val
              /\ candles[i].open = response.o[i]
              /\ candles[i].high = response.h[i]
              /\ candles[i].low = response.l[i]
              /\ candles[i].close = response.c[i]

====
